---- MODULE Spec2Model ----
(***************************************************************************)
(* Kernel activation / deactivation state machine of the MiniOS kernel     *)
(* manager (lib/minios_utils.py).  The state is the MiniOS directory:      *)
(* the marker boot/active-kernel, the kernel files in the active locations *)
(* (boot/ and the MiniOS root), the repository kernels/<v>/ and the        *)
(* bootloader configuration files.  activate_kernel and                    *)
(* deactivate_current_kernel advance one filesystem call per step, so that *)
(* every intermediate filesystem state is a state of the model.            *)
(***************************************************************************)
EXTENDS Integers, Sequences, FiniteSets, TLC

VARIABLES
    running,      \* get_currently_running_kernel(): a version, or None for ""
    marker,       \* boot/active-kernel: NoFile, None (empty) or a version
    activeFiles,  \* [v][k]: content of v's file of kind k in boot/ or the root
    kernels,      \* [v]: the directory kernels/<v>/
    cfg,          \* [f]: NoFile, or the version the config file f references
    pc,           \* position of the call in progress
    call,         \* arguments, locals and return value of the current/last call
    pre,          \* the filesystem as it was when the current/last call began
    rt,           \* progress of a store(V); activate(V); activate(W) sequence
    nops,         \* number of operations called so far
    faults,       \* number of I/O errors the environment has raised so far
    txt,          \* a configuration text and the rewrites applied to it
    other,        \* pc and call of a second process that is not running now
    pkg           \* the package command of the CLI: position, files, globals

vars == <<running, marker, activeFiles, kernels, cfg, pc, call, pre, rt, nops, faults, txt,
          other, pkg>>

fsvars == <<marker, activeFiles, kernels, cfg>>

-----------------------------------------------------------------------------
(* Bounds *)

NumVersions == 2
NumContents == 2
MaxOps == 1
MaxFaults == 1
MaxLines == 2

-----------------------------------------------------------------------------
(* Values *)

Versions == 1..NumVersions
Contents == 1..NumContents
\* The files a MiniOS directory starts with have content 1; the files a
\* store brings have the other contents.
StoreContents == Contents \ {1}
None == 0
NoFile == -1

Kinds == {"vmlinuz", "initrfs", "sb"}

GrubDirFiles ==
    {"boot/grub/main.cfg", "boot/grub/grub.multilang.cfg",
     "boot/grub/grub.template.cfg", "boot/grub/grub.cfg"}

SyslinuxDirFiles ==
    {"boot/syslinux/syslinux.cfg", "boot/syslinux/lang/en.cfg"}

ConfigFiles == GrubDirFiles \cup SyslinuxDirFiles \cup {"boot/syslinux.cfg"}

\* Layouts of bootloader configuration files a MiniOS directory starts with.
CfgLayouts ==
    { {},
      {"boot/grub/grub.cfg"},
      {"boot/grub/grub.cfg", "boot/syslinux.cfg"},
      GrubDirFiles \cup SyslinuxDirFiles,
      ConfigFiles }

NoFiles == [k \in Kinds |-> 0]

NoDir == [exists |-> FALSE, files |-> NoFiles]

Triad(c) == [k \in Kinds |-> c]

Complete(files) == \A k \in Kinds : files[k] # 0

\* Basenames of the three source files of a store: all of them the names
\* 01-kernel-<v>.sb, vmlinuz-<v>, initrfs-<v>.img (as the package command
\* passes them), or none of them (as temporary files have).
CanonChoices == {[k \in Kinds |-> TRUE], [k \in Kinds |-> FALSE]}

\* The exit status of a call that is not a command, or has not exited yet.
NoExit == -1

\* How an operation is called: "none" directly (the library function),
\* "human" or "json" through the minios-kernel command without or with --json.
CliModes == {"human", "json"}

NoCall ==
    [op |-> "none", target |-> None, branch |-> "none", ret |-> "none",
     av |-> None, isRunning |-> FALSE, todo |-> <<>>, retired |-> FALSE,
     faulted |-> FALSE, grubFailed |-> FALSE, cfgFailed |-> FALSE,
     content |-> 0, canon |-> FALSE, cli |-> "none", exit |-> NoExit,
     failed |-> {}]

\* No second process.
NoProc == [pc |-> "none", call |-> NoCall, mixed |-> FALSE]

\* The package command before it is started: no temporary directory, an
\* empty output directory, _temp_dir = None.
NoPkg ==
    [pc |-> "none", version |-> None, content |-> 0,
     mksquashfs |-> FALSE, builder |-> FALSE,
     tempDir |-> FALSE, global |-> FALSE, out |-> {}, staging |-> FALSE,
     removed |-> 0, error |-> "none", handling |-> FALSE, exit |-> NoExit]

\* No configuration text under consideration.
NoText ==
    [rewriter |-> "none", version |-> None, orig |-> <<>>, text |-> <<>>,
     prev |-> <<>>, stage |-> 0, wrote |-> FALSE]

-----------------------------------------------------------------------------
(* Read operations *)

\* A test that takes no kernel for the running one.
is_kernel_never_running(v) == FALSE

\* is_kernel_currently_running: string equality with the running version.
is_kernel_currently_running(v) == v = running

\* Versions glob("boot/vmlinuz-*") finds, in listing order.  The listing
\* order is some fixed order of the names; the numbering of the versions is
\* arbitrary, so it is taken to be that order.
GlobVmlinuz(af) == SelectSeq([i \in 1..NumVersions |-> i], LAMBDA v : af[v]["vmlinuz"] # 0)

\* A get_active_kernel that scans boot/ first and reads the marker only when
\* there is no vmlinuz-* file.
get_active_kernel_scan_first(mk, af) ==
    IF GlobVmlinuz(af) # <<>> THEN Head(GlobVmlinuz(af))
    ELSE IF mk \in Versions THEN mk
    ELSE None

\* get_active_kernel: the marker when it exists and is non-empty, else the
\* first vmlinuz-* file of boot/, else None.
get_active_kernel(mk, af) ==
    IF mk \in Versions THEN mk
    ELSE IF GlobVmlinuz(af) = <<>> THEN None
    ELSE Head(GlobVmlinuz(af))

\* get_active_kernel_files(minios_path, v): vmlinuz, initramfs, squashfs of v
\* that exist in the active locations, in that order.
get_active_kernel_files(af, v) ==
    SelectSeq(<<"vmlinuz", "initrfs", "sb">>, LAMBDA k : af[v][k] # 0)

Snapshot ==
    [marker |-> marker, activeFiles |-> activeFiles, kernels |-> kernels,
     cfg |-> cfg]

-----------------------------------------------------------------------------
(* Initial states: a MiniOS directory in which every kernel present in the  *)
(* active locations or in the repository has its three files.  With a       *)
(* marker, the active locations hold the marker's kernel and possibly the   *)
(* running kernel (whose files a retirement leaves in place); without one,  *)
(* they hold at most two kernels.  The bootloader configs that exist        *)
(* reference the active kernel.                                             *)

Init ==
    /\ running \in Versions \cup {None}
    /\ marker \in Versions \cup {NoFile}
    /\ \E S \in SUBSET Versions :
          /\ marker \in Versions => marker \in S /\ S \subseteq {marker, running}
          /\ marker = NoFile => Cardinality(S) <= 2
          /\ activeFiles = [v \in Versions |-> IF v \in S THEN Triad(1) ELSE NoFiles]
    /\ \E P \in SUBSET Versions :
          kernels = [v \in Versions |->
                       IF v \in P THEN [exists |-> TRUE, files |-> Triad(1)]
                       ELSE NoDir]
    /\ \E L \in CfgLayouts :
          LET a  == get_active_kernel(marker, activeFiles)
              cv == IF a = None THEN 1 ELSE a
          IN cfg = [f \in ConfigFiles |-> IF f \in L THEN cv ELSE NoFile]
    /\ pc = "idle"
    /\ call = NoCall
    /\ pre = Snapshot
    /\ rt = [stage |-> 0, v |-> None, c |-> 0, fresh |-> FALSE]
    /\ nops = 0
    /\ faults = 0
    /\ txt = NoText
    /\ other = NoProc
    /\ pkg = NoPkg

-----------------------------------------------------------------------------
(* Filesystem effects of the single calls the operations make *)

\* The order in which package_kernel_to_repository and activate_kernel copy
\* the three files.
CopyOrder == <<"sb", "vmlinuz", "initrfs">>

\* A retirement that moves the file whether or not the kernel is running.
RetireFileAlwaysMove(af, kn, v, k, isRun) ==
    [activeFiles |-> [af EXCEPT ![v][k] = 0],
     kernels     |-> [kn EXCEPT ![v].files[k] = af[v][k]]]

\* A retirement with source and destination exchanged: the repository's file
\* goes to the active location.
RetireFileSwapped(af, kn, v, k, isRun) ==
    [activeFiles |-> [af EXCEPT ![v][k] = kn[v].files[k]],
     kernels     |-> IF isRun THEN kn ELSE [kn EXCEPT ![v].files[k] = 0]]

\* shutil.copy2(f, dest) / shutil.move(f, dest) of deactivate_current_kernel:
\* file k of version v goes to kernels/<v>/<basename>, and leaves the active
\* location unless the kernel is running.
RetireFile(af, kn, v, k, isRun) ==
    [activeFiles |-> IF isRun THEN af ELSE [af EXCEPT ![v][k] = 0],
     kernels     |-> [kn EXCEPT ![v].files[k] = af[v][k]]]

\* A copy that returns without having copied anything.
ActivateCopySkipped(af, kn, t, k) == af

\* shutil.copy2 of activate_kernel: kernels/<t>/<name> to the active location.
ActivateCopy(af, kn, t, k) == [af EXCEPT ![t][k] = kn[t].files[k]]

\* A rewrite that leaves the file as it was.
UpdateConfigSkipped(cf, f, t) == cf

\* _update_syslinux_config / _update_grub_config: every recognised path of the
\* file is rewritten to the version.
UpdateConfig(cf, f, t) == [cf EXCEPT ![f] = t]

\* find_grub_config_files(minios_path) = []: no GRUB configuration file
\* exists under boot/grub/.
NoGrubConfig(cf) == \A g \in GrubDirFiles : cf[g] = NoFile

\* The files _update_bootloader_configs of minios_utils looks at, in order.
CfgOrder == <<"boot/syslinux.cfg", "boot/grub/grub.cfg">>

\* A marker write that leaves the previous content in place.
WriteMarkerStale(t) == marker

\* with open(marker_file, 'w') as f: f.write(kernel_version)
WriteMarker(t) == t

\* A store without the cleanup of the except branch: the files copied before
\* the failing copy stay in kernels/<v>/.
package_without_cleanup(dir, c, canon, failAt) ==
    LET done == IF failAt = 0 THEN Kinds
                ELSE {CopyOrder[i] : i \in 1..(failAt - 1)}
    IN [exists |-> TRUE,
        files  |-> [k \in Kinds |-> IF canon[k] /\ k \in done THEN c ELSE dir.files[k]]]

\* package_kernel_to_repository: the directory kernels/<v>/ after the call.
\* canon[k] says whether the basename of the source file of kind k is the
\* name activate_kernel looks for; failAt is the copy that raises (0: none).
package_kernel_to_repository(dir, c, canon, failAt) ==
    IF failAt # 0 THEN NoDir
    ELSE [exists |-> TRUE,
          files  |-> [k \in Kinds |-> IF canon[k] THEN c ELSE dir.files[k]]]

\* A delete that empties kernels/<v>/ and leaves the directory behind.
delete_keeps_directory(dir) == [dir EXCEPT !.files = NoFiles]

\* delete_packaged_kernel: shutil.rmtree(kernels/<v>).
delete_packaged_kernel(dir) == NoDir

\* The outcomes of a call that can raise an I/O error: TRUE (it succeeds),
\* and FALSE (it raises) while the environment still has errors to raise.
FaultChoice == IF faults < MaxFaults THEN BOOLEAN ELSE {TRUE}

\* The exit status of activate_kernel_cmd / delete_kernel_cmd once the
\* library function has returned val: sys.exit(1) is reached only without
\* --json and on failure; otherwise the command returns and the process
\* exits with 0.
ExitCode(cli, val) ==
    IF cli = "none" THEN NoExit
    ELSE IF cli = "human" /\ val = "False" THEN 1
    ELSE 0

Ret(c, val) == [c EXCEPT !.ret = val, !.todo = <<>>, !.exit = ExitCode(c.cli, val)]

BoolStr(b) == IF b THEN "True" ELSE "False"

\* A continuation that does not look at the result of
\* deactivate_current_kernel: activate_kernel goes on after a failed
\* retirement.
AfterRetireIgnoringFailure(c, ok) ==
    IF c.op = "deactivate" THEN [pc |-> "idle", call |-> Ret(c, BoolStr(ok))]
    ELSE IF c.branch = "running"
         THEN [pc |-> "act_cfg", call |-> [c EXCEPT !.todo = CfgOrder, !.retired = ok]]
         ELSE [pc |-> "act_check", call |-> [c EXCEPT !.todo = <<>>, !.retired = ok]]

\* A continuation that treats the running kernel as any other target: it
\* goes on to the repository check and the copies.
AfterRetireRunningCopies(c, ok) ==
    IF c.op = "deactivate" THEN [pc |-> "idle", call |-> Ret(c, BoolStr(ok))]
    ELSE IF ~ok THEN [pc |-> "idle", call |-> Ret(c, "False")]
    ELSE [pc |-> "act_check", call |-> [c EXCEPT !.todo = <<>>, !.retired = TRUE]]

\* What follows the return of deactivate_current_kernel: the return of the
\* standalone call, or the continuation inside activate_kernel.
AfterRetire(c, ok) ==
    IF c.op = "deactivate" THEN [pc |-> "idle", call |-> Ret(c, BoolStr(ok))]
    ELSE IF ~ok THEN [pc |-> "idle", call |-> Ret(c, "False")]
    ELSE IF c.branch = "running"
         THEN [pc |-> "act_cfg", call |-> [c EXCEPT !.todo = CfgOrder, !.retired = TRUE]]
         ELSE [pc |-> "act_check", call |-> [c EXCEPT !.todo = <<>>, !.retired = TRUE]]

-----------------------------------------------------------------------------
(* deactivate_current_kernel *)

DeactivateBegin ==
    /\ pc = "idle"
    /\ nops' = nops + 1
    /\ faults' = faults
    /\ pc' = "deact_start"
    /\ call' = [NoCall EXCEPT !.op = "deactivate"]
    /\ pre' = Snapshot
    /\ UNCHANGED <<running, fsvars>>

\* get_active_kernel, os.makedirs(kernels/<active>), get_active_kernel_files.
DeactStart ==
    /\ pc = "deact_start"
    /\ UNCHANGED <<nops, faults>>
    /\ LET av    == get_active_kernel(marker, activeFiles)
           files == get_active_kernel_files(activeFiles, av)
           c1    == [call EXCEPT !.av = av, !.isRunning = is_kernel_currently_running(av)]
       IN IF av = None
          THEN /\ kernels' = kernels
               /\ pc' = AfterRetire(call, TRUE).pc
               /\ call' = AfterRetire(call, TRUE).call
          ELSE /\ kernels' = [kernels EXCEPT ![av].exists = TRUE]
               /\ IF files = <<>>
                  THEN /\ pc' = AfterRetire(c1, TRUE).pc
                       /\ call' = AfterRetire(c1, TRUE).call
                  ELSE /\ pc' = "deact_loop"
                       /\ call' = [c1 EXCEPT !.todo = files]
    /\ UNCHANGED <<running, marker, activeFiles, cfg, pre>>

\* One iteration of "for f in active_files": copy or move, which may raise.
DeactLoop ==
    /\ nops' = nops
    /\ pc = "deact_loop"
    /\ call.todo # <<>>
    /\ LET k    == Head(call.todo)
           rest == Tail(call.todo)
       IN \E ok \in FaultChoice :
            /\ faults' = IF ok THEN faults ELSE faults + 1
            /\ IF ok
               THEN /\ IF activeFiles[call.av][k] # 0
                       THEN LET r == RetireFile(activeFiles, kernels, call.av, k, call.isRunning)
                            IN /\ activeFiles' = r.activeFiles
                               /\ kernels' = r.kernels
                       ELSE UNCHANGED <<activeFiles, kernels>>
                    /\ IF rest = <<>>
                       THEN /\ pc' = AfterRetire(call, TRUE).pc
                            /\ call' = AfterRetire(call, TRUE).call
                       ELSE /\ pc' = "deact_loop"
                            /\ call' = [call EXCEPT !.todo = rest]
               ELSE /\ UNCHANGED <<activeFiles, kernels>>
                    /\ pc' = AfterRetire(call, FALSE).pc
                    /\ call' = [AfterRetire(call, FALSE).call EXCEPT !.faulted = TRUE]
    /\ UNCHANGED <<running, marker, cfg, pre>>

-----------------------------------------------------------------------------
(* activate_kernel *)

\* The entry of activate_kernel: the running-kernel test, and the early
\* return when the running kernel is already active.
ActivateFrom(t, cli) ==
    /\ pc = "idle"
    /\ nops' = nops + 1
    /\ faults' = faults
    /\ pre' = Snapshot
    /\ LET c == [NoCall EXCEPT !.op = "activate", !.target = t, !.cli = cli]
       IN IF is_kernel_currently_running(t)
          THEN IF get_active_kernel(marker, activeFiles) = t
               THEN /\ pc' = "idle"
                    /\ call' = Ret([c EXCEPT !.branch = "running"], "True")
               ELSE /\ pc' = "deact_start"
                    /\ call' = [c EXCEPT !.branch = "running"]
          ELSE /\ pc' = "deact_start"
               /\ call' = [c EXCEPT !.branch = "normal"]
    /\ UNCHANGED <<running, fsvars>>

\* activate_kernel called directly.
ActivateBegin(t) == ActivateFrom(t, "none")

\* list_all_kernels: the directories of kernels/, the active kernel and the
\* running kernel.
list_all_kernels ==
    {v \in Versions : kernels[v].exists}
      \cup ({get_active_kernel(marker, activeFiles), running} \ {None})

\* activate_kernel_cmd: failure when the version is not listed, success
\* without a call when it is already active, activate_kernel otherwise.
activate_kernel_cmd(t, cli) ==
    LET c == [NoCall EXCEPT !.op = "activate", !.target = t, !.cli = cli]
    IN IF t \notin list_all_kernels
       THEN /\ pc = "idle"
            /\ nops' = nops + 1
            /\ pre' = Snapshot
            /\ pc' = "idle"
            /\ call' = [c EXCEPT !.branch = "unavailable", !.ret = "False", !.exit = 1]
            /\ UNCHANGED <<running, fsvars, faults>>
       ELSE IF t = get_active_kernel(marker, activeFiles)
       THEN /\ pc = "idle"
            /\ nops' = nops + 1
            /\ pre' = Snapshot
            /\ pc' = "idle"
            /\ call' = [c EXCEPT !.branch = "already", !.ret = "True", !.exit = 0]
            /\ UNCHANGED <<running, fsvars, faults>>
       ELSE ActivateFrom(t, cli)

\* os.path.exists(kernel_version_path) and the three os.path.exists checks.
ActCheck ==
    /\ pc = "act_check"
    /\ UNCHANGED <<nops, faults>>
    /\ IF kernels[call.target].exists /\ Complete(kernels[call.target].files)
       THEN /\ pc' = "act_copy"
            /\ call' = [call EXCEPT !.todo = CopyOrder]
       ELSE /\ pc' = "idle"
            /\ call' = Ret(call, "False")
    /\ UNCHANGED <<running, fsvars, pre>>

\* One of the three shutil.copy2 calls into the active locations.
ActCopy ==
    /\ nops' = nops
    /\ pc = "act_copy"
    /\ call.todo # <<>>
    /\ LET k    == Head(call.todo)
           rest == Tail(call.todo)
       IN \E ok \in FaultChoice :
            /\ faults' = IF ok THEN faults ELSE faults + 1
            /\ IF ok
               THEN /\ activeFiles' = ActivateCopy(activeFiles, kernels, call.target, k)
                    /\ IF rest = <<>>
                       THEN /\ pc' = "act_cfg"
                            /\ call' = [call EXCEPT !.todo = CfgOrder]
                       ELSE /\ pc' = "act_copy"
                            /\ call' = [call EXCEPT !.todo = rest]
               ELSE /\ activeFiles' = activeFiles
                    /\ pc' = "idle"
                    /\ call' = [Ret(call, "False") EXCEPT !.faulted = TRUE]
    /\ UNCHANGED <<running, marker, kernels, cfg, pre>>

\* One file of _update_bootloader_configs: skipped when absent, rewritten
\* otherwise; a read or write error makes the helper return False, which
\* _update_bootloader_configs folds into a result activate_kernel discards.
ActCfg ==
    /\ nops' = nops
    /\ pc = "act_cfg"
    /\ call.todo # <<>>
    /\ LET f    == Head(call.todo)
           rest == Tail(call.todo)
           nxt  == IF rest = <<>> THEN "act_marker" ELSE "act_cfg"
       IN IF cfg[f] = NoFile
          THEN /\ cfg' = cfg
               /\ pc' = nxt
               /\ call' = [call EXCEPT !.todo = rest,
                              !.grubFailed = @ \/ (f \in GrubDirFiles /\ NoGrubConfig(cfg))]
               /\ faults' = faults
          ELSE \E ok \in FaultChoice :
                 /\ faults' = IF ok THEN faults ELSE faults + 1
                 /\ IF ok
                    THEN /\ cfg' = UpdateConfig(cfg, f, call.target)
                         /\ pc' = nxt
                         /\ call' = [call EXCEPT !.todo = rest]
                    ELSE /\ cfg' = cfg
                         /\ pc' = nxt
                         /\ call' = [call EXCEPT !.todo = rest,
                                        !.cfgFailed = TRUE,
                                        !.grubFailed = @ \/ f \in GrubDirFiles]
    /\ UNCHANGED <<running, marker, activeFiles, kernels, pre>>

\* The write of boot/active-kernel and the return of True.
ActMarker ==
    /\ pc = "act_marker"
    /\ UNCHANGED <<nops, faults>>
    /\ marker' = WriteMarker(call.target)
    /\ pc' = "idle"
    /\ call' = Ret(call, "True")
    /\ UNCHANGED <<running, activeFiles, kernels, cfg, pre>>

-----------------------------------------------------------------------------
(* package_kernel_to_repository and delete_packaged_kernel *)

Package(v, c, canon, failAt) ==
    /\ pc = "idle"
    /\ nops' = nops + 1
    /\ failAt # 0 => faults < MaxFaults
    /\ faults' = IF failAt # 0 THEN faults + 1 ELSE faults
    /\ pre' = Snapshot
    /\ kernels' = [kernels EXCEPT ![v] = package_kernel_to_repository(@, c, canon, failAt)]
    /\ call' = [NoCall EXCEPT !.op = "package", !.target = v, !.content = c,
                              !.canon = (\A k \in Kinds : canon[k]),
                              !.faulted = (failAt # 0),
                              !.ret = BoolStr(failAt = 0)]
    /\ pc' = "idle"
    /\ UNCHANGED <<running, marker, activeFiles, cfg>>

DeleteFrom(v, ok, cli) ==
    /\ pc = "idle"
    /\ nops' = nops + 1
    /\ ~ok => kernels[v].exists /\ faults < MaxFaults
    /\ faults' = IF ~ok THEN faults + 1 ELSE faults
    /\ pre' = Snapshot
    /\ kernels' = [kernels EXCEPT ![v] = IF @.exists /\ ok THEN delete_packaged_kernel(@) ELSE @]
    /\ call' = [NoCall EXCEPT !.op = "delete", !.target = v, !.cli = cli,
                              !.faulted = (kernels[v].exists /\ ~ok),
                              !.ret = BoolStr(~kernels[v].exists \/ ok),
                              !.exit = ExitCode(cli, BoolStr(~kernels[v].exists \/ ok))]
    /\ pc' = "idle"
    /\ UNCHANGED <<running, marker, activeFiles, cfg>>

\* delete_packaged_kernel called directly.
Delete(v, ok) == DeleteFrom(v, ok, "none")

\* delete_kernel_cmd: delete_packaged_kernel and the report of its result.
delete_kernel_cmd(v, ok, cli) == DeleteFrom(v, ok, cli)

-----------------------------------------------------------------------------
(* Observer of the sequence store(V); activate(V); activate(W) *)

\* stage: how many calls of the sequence have returned True; v, c: the version
\* stored and the content of its three files; fresh: V was neither the active
\* nor the running kernel when activate(V) was called.
RtReset == [stage |-> 0, v |-> None, c |-> 0, fresh |-> FALSE]

RtNext(r, c, p, snap) ==
    IF p # "idle" THEN r
    ELSE IF c.op = "package" /\ c.ret = "True" /\ c.canon
         THEN [stage |-> 1, v |-> c.target, c |-> c.content, fresh |-> FALSE]
    ELSE IF r.stage = 1 /\ c.op = "activate" /\ c.ret = "True" /\ c.target = r.v
         THEN [r EXCEPT !.stage = 2,
                        !.fresh = /\ ~is_kernel_currently_running(r.v)
                                  /\ get_active_kernel(snap.marker, snap.activeFiles) # r.v]
    ELSE IF r.stage = 2 /\ c.op = "activate" /\ c.ret = "True" /\ c.target # r.v
         THEN [r EXCEPT !.stage = 3]
    ELSE RtReset

\* The operations a caller can start, and the steps of the call in progress.
Calls ==
    \/ DeactivateBegin
    \/ \E t \in Versions : ActivateBegin(t)
    \/ \E v \in Versions, c \in StoreContents, canon \in CanonChoices, failAt \in 0..3 :
          Package(v, c, canon, failAt)
    \/ \E v \in Versions, ok \in BOOLEAN : Delete(v, ok)

Steps ==
    \/ DeactStart
    \/ DeactLoop
    \/ ActCheck
    \/ ActCopy
    \/ ActCfg
    \/ ActMarker

\* Any sequence of at most MaxOps operations.
Next ==
    /\ \/ nops < MaxOps /\ Calls
       \/ Steps
    /\ rt' = RtNext(rt, call', pc', pre')
    /\ txt' = txt
    /\ UNCHANGED <<other, pkg>>

Spec == Init /\ [][Next]_vars

\* Any sequence of at most MaxOps store, activate and delete operations.
CallsSAD ==
    \/ \E t \in Versions : ActivateBegin(t)
    \/ \E v \in Versions, c \in StoreContents, canon \in CanonChoices, failAt \in 0..3 :
          Package(v, c, canon, failAt)
    \/ \E v \in Versions, ok \in BOOLEAN : Delete(v, ok)

NextSAD ==
    /\ \/ nops < MaxOps /\ CallsSAD
       \/ Steps
    /\ rt' = RtNext(rt, call', pc', pre')
    /\ txt' = txt
    /\ UNCHANGED <<other, pkg>>

SpecSAD == Init /\ [][NextSAD]_vars

\* The sequence store(V); activate(V); activate(W), W # V, each call made
\* once the one before it has returned True.
StoreV ==
    /\ rt.stage = 0 /\ nops = 0
    /\ \E v \in Versions, c \in StoreContents, canon \in CanonChoices, failAt \in 0..3 :
          Package(v, c, canon, failAt)

ActivateV ==
    /\ rt.stage = 1 /\ nops = 1
    /\ ActivateBegin(rt.v)

ActivateW ==
    /\ rt.stage = 2 /\ nops = 2
    /\ \E w \in Versions \ {rt.v} : ActivateBegin(w)

NextRT ==
    /\ \/ StoreV
       \/ ActivateV
       \/ ActivateW
       \/ Steps
    /\ rt' = RtNext(rt, call', pc', pre')
    /\ txt' = txt
    /\ UNCHANGED <<other, pkg>>

SpecRT == Init /\ [][NextRT]_vars

\* Any sequence of at most MaxOps minios-kernel activate and delete commands.
CallsCLI ==
    \/ \E t \in Versions, cli \in CliModes : activate_kernel_cmd(t, cli)
    \/ \E v \in Versions, ok \in BOOLEAN, cli \in CliModes : delete_kernel_cmd(v, ok, cli)

NextCLI ==
    /\ \/ nops < MaxOps /\ CallsCLI
       \/ Steps
    /\ rt' = RtNext(rt, call', pc', pre')
    /\ txt' = txt
    /\ UNCHANGED <<other, pkg>>

SpecCLI == Init /\ [][NextCLI]_vars

\* The sequence store(V); delete(V); delete(V).
StoreFirst ==
    /\ nops = 0
    /\ \E v \in Versions, c \in StoreContents, canon \in CanonChoices, failAt \in 0..3 :
          Package(v, c, canon, failAt)

DeleteStored ==
    /\ nops = 1 /\ call.op = "package"
    /\ \E ok \in BOOLEAN : Delete(call.target, ok)

DeleteAgain ==
    /\ nops = 2 /\ call.op = "delete"
    /\ \E ok \in BOOLEAN : Delete(call.target, ok)

NextSDD ==
    /\ \/ StoreFirst
       \/ DeleteStored
       \/ DeleteAgain
    /\ rt' = RtNext(rt, call', pc', pre')
    /\ txt' = txt
    /\ UNCHANGED <<other, pkg>>

SpecSDD == Init /\ [][NextSDD]_vars

-----------------------------------------------------------------------------
(* The bootloader configuration update on its own: update_bootloader_configs *)
(* of bootloader_utils and _update_bootloader_configs of minios_utils       *)

\* The files update_grub_config and update_syslinux_config of bootloader_utils
\* look for, in the order they are processed: GRUB first, then SYSLINUX.
BootloaderUtilsOrder ==
    <<"boot/grub/main.cfg", "boot/grub/grub.multilang.cfg",
      "boot/grub/grub.template.cfg", "boot/grub/grub.cfg",
      "boot/syslinux/syslinux.cfg", "boot/syslinux/lang/en.cfg">>

UpdaterModules == {"bootloader_utils", "minios_utils"}

\* The files of the module's list that exist, in order.
Discovered(module, cf) ==
    SelectSeq(IF module = "bootloader_utils" THEN BootloaderUtilsOrder ELSE CfgOrder,
              LAMBDA f : cf[f] # NoFile)

\* A per-file failure that ends the whole update.
AfterFileFailureAbort(rest) == <<>>

\* The except branch of a per-file update: the loop goes on with the files
\* that remain.
AfterFileFailure(rest) == rest

\* The result of the update: False when a file failed, and for
\* bootloader_utils also when no GRUB file was found.
UpdateResult(module, failed, cf) ==
    /\ failed = {}
    /\ ~(module = "bootloader_utils" /\ NoGrubConfig(cf))

UpdateConfigsBegin(module, t) ==
    /\ pc = "idle"
    /\ nops = 0
    /\ nops' = nops + 1
    /\ faults' = faults
    /\ pre' = Snapshot
    /\ pc' = "upd_cfg"
    /\ call' = [NoCall EXCEPT !.op = "update_configs", !.branch = module,
                              !.target = t, !.todo = Discovered(module, cfg)]
    /\ UNCHANGED <<running, fsvars>>

\* One file of the update, which may fail to be read, decoded or written;
\* after the last file, the return of the overall result.
UpdateConfigsStep ==
    /\ pc = "upd_cfg"
    /\ nops' = nops
    /\ IF call.todo = <<>>
       THEN /\ pc' = "idle"
            /\ call' = Ret(call, BoolStr(UpdateResult(call.branch, call.failed, pre.cfg)))
            /\ UNCHANGED <<cfg, faults>>
       ELSE LET f    == Head(call.todo)
                rest == Tail(call.todo)
            IN \E ok \in FaultChoice :
                 /\ faults' = IF ok THEN faults ELSE faults + 1
                 /\ pc' = "upd_cfg"
                 /\ IF ok
                    THEN /\ cfg' = UpdateConfig(cfg, f, call.target)
                         /\ call' = [call EXCEPT !.todo = rest]
                    ELSE /\ cfg' = cfg
                         /\ call' = [call EXCEPT !.todo = AfterFileFailure(rest),
                                                 !.failed = @ \cup {f},
                                                 !.cfgFailed = TRUE]
    /\ UNCHANGED <<running, marker, activeFiles, kernels, pre>>

NextCfg ==
    /\ \/ \E module \in UpdaterModules, t \in Versions : UpdateConfigsBegin(module, t)
       \/ UpdateConfigsStep
    /\ rt' = RtNext(rt, call', pc', pre')
    /\ txt' = txt
    /\ UNCHANGED <<other, pkg>>

SpecCfg == Init /\ [][NextCfg]_vars

-----------------------------------------------------------------------------
(* The activate command of the CLI with SIGINT and SIGTERM                  *)

\* The signals minios_kernel.py installs signal_handler for.
Signals == {2, 15}

\* signal_handler run by the interpreter between two steps of the command:
\* with no temporary directory to clean up it calls sys.exit(128 + signum);
\* SystemExit is not an Exception, so no except clause of activate_kernel
\* or deactivate_current_kernel catches it and the process ends there.
signal_handler(signum) ==
    /\ pc \notin {"idle", "exited"}
    /\ call.cli # "none"
    /\ pc' = "exited"
    /\ call' = [call EXCEPT !.exit = 128 + signum, !.todo = <<>>]
    /\ UNCHANGED <<running, fsvars, pre, nops, faults>>

NextSig ==
    /\ \/ nops = 0 /\ \E t \in Versions, cli \in CliModes : activate_kernel_cmd(t, cli)
       \/ Steps
       \/ \E signum \in Signals : signal_handler(signum)
    /\ rt' = RtNext(rt, call', pc', pre')
    /\ txt' = txt
    /\ UNCHANGED <<other, pkg>>

SpecSig == Init /\ [][NextSig]_vars

-----------------------------------------------------------------------------
(* Longer sequences of operations on a system whose running kernel has its  *)
(* three files in the active locations                                      *)

\* The running kernel's files are in the active locations, together with the
\* marked kernel's if there is a marker; any kernels are packaged, each with
\* its complete triad; boot/syslinux.cfg and boot/grub/grub.cfg exist.
InitSeq ==
    /\ running \in Versions
    /\ marker \in Versions \cup {NoFile}
    /\ activeFiles = [v \in Versions |->
                         IF v = running \/ v = marker THEN Triad(1) ELSE NoFiles]
    /\ \E P \in SUBSET Versions :
          kernels = [v \in Versions |->
                        IF v \in P THEN [exists |-> TRUE, files |-> Triad(1)] ELSE NoDir]
    /\ cfg = [f \in ConfigFiles |->
                 IF f \in {"boot/syslinux.cfg", "boot/grub/grub.cfg"}
                 THEN get_active_kernel(marker, activeFiles) ELSE NoFile]
    /\ pc = "idle"
    /\ call = NoCall
    /\ pre = Snapshot
    /\ rt = RtReset
    /\ nops = 0
    /\ faults = 0
    /\ txt = NoText
    /\ other = NoProc
    /\ pkg = NoPkg

\* Any sequence of at most MaxOps + 1 operations.
NextSeq ==
    /\ \/ nops < MaxOps + 1 /\ Calls
       \/ Steps
    /\ rt' = RtNext(rt, call', pc', pre')
    /\ txt' = txt
    /\ UNCHANGED <<other, pkg>>

SpecSeq == InitSeq /\ [][NextSeq]_vars

-----------------------------------------------------------------------------
(* Two activate_kernel invocations on the same root, with no lock: pc and   *)
(* call belong to the process that runs now, other to the one that waits    *)

\* A second process that has not called activate_kernel yet.
InitPar ==
    /\ running \in Versions
    /\ marker \in Versions \cup {NoFile}
    /\ activeFiles = [v \in Versions |->
                         IF v = running \/ v = marker THEN Triad(1) ELSE NoFiles]
    /\ \E P \in SUBSET Versions :
          kernels = [v \in Versions |->
                        IF v \in P THEN [exists |-> TRUE, files |-> Triad(1)] ELSE NoDir]
    /\ cfg = [f \in ConfigFiles |->
                 IF f \in {"boot/syslinux.cfg", "boot/grub/grub.cfg"}
                 THEN get_active_kernel(marker, activeFiles) ELSE NoFile]
    /\ pc = "idle"
    /\ call = NoCall
    /\ pre = Snapshot
    /\ rt = RtReset
    /\ nops = 0
    /\ faults = 0
    /\ txt = NoText
    /\ other = [NoProc EXCEPT !.pc = "idle"]
    /\ pkg = NoPkg

\* The process that runs now calls activate_kernel, for a target the other
\* process has not chosen.
ActivatePar ==
    /\ call.op = "none"
    /\ \E t \in Versions \ {other.call.target} : ActivateBegin(t)
    /\ other' = other

\* The scheduler lets the other process run: between two steps of the
\* current one (the invocations interleave) or after its return.
Switch ==
    /\ call.op # "none"
    /\ other.pc # "idle" \/ other.call.op = "none"
    /\ pc' = other.pc
    /\ call' = other.call
    /\ other' = [pc |-> pc, call |-> call, mixed |-> other.mixed \/ pc # "idle"]
    /\ UNCHANGED <<running, fsvars, pre, nops, faults>>

NextPar ==
    /\ \/ ActivatePar
       \/ Steps /\ other' = other
       \/ Switch
    /\ rt' = RtNext(rt, call', pc', pre')
    /\ txt' = txt
    /\ pkg' = pkg

SpecPar == InitPar /\ [][NextPar]_vars

-----------------------------------------------------------------------------
(* The package command of the CLI: package_kernel of minios_kernel.py       *)

\* A MiniOS directory with any kernels packaged and nothing active, an empty
\* output directory, and any of the external build tools installed.
InitPkg ==
    /\ \E P \in SUBSET Versions :
          kernels = [v \in Versions |->
                        IF v \in P THEN [exists |-> TRUE, files |-> Triad(1)] ELSE NoDir]
    /\ \E m \in BOOLEAN, b \in BOOLEAN :
          pkg = [NoPkg EXCEPT !.mksquashfs = m, !.builder = b]
    /\ running = None
    /\ marker = NoFile
    /\ activeFiles = [v \in Versions |-> NoFiles]
    /\ cfg = [f \in ConfigFiles |-> NoFile]
    /\ pc = "idle"
    /\ call = NoCall
    /\ pre = Snapshot
    /\ rt = RtReset
    /\ nops = 0
    /\ faults = 0
    /\ txt = NoText
    /\ other = NoProc

\* cleanup_temp_dir: when _temp_dir is set and the directory exists, remove
\* it and clear _temp_dir.
cleanup_temp_dir(p) ==
    IF p.global /\ p.tempDir
    THEN [p EXCEPT !.tempDir = FALSE, !.removed = @ + 1, !.global = FALSE]
    ELSE p

\* An exception raised by a packaging step: control goes to the except
\* clause of package_kernel.
Raise(p, what) == [p EXCEPT !.pc = "except", !.error = what]

PkgFrame == UNCHANGED <<running, marker, activeFiles, cfg, pc, call, nops, rt, txt, other>>

\* The command starts for kernel v, whose built files will have content c.
package_kernel(v, c) ==
    /\ pkg.pc = "none"
    /\ pkg' = [pkg EXCEPT !.pc = "mktemp", !.version = v, !.content = c]
    /\ pre' = Snapshot
    /\ UNCHANGED <<kernels, faults>>
    /\ PkgFrame

\* get_temp_dir_with_space_check creates the temporary directory, and
\* _temp_dir is set.
PkgMkTemp ==
    /\ pkg.pc = "mktemp"
    /\ \E ok \in FaultChoice :
         /\ faults' = IF ok THEN faults ELSE faults + 1
         /\ pkg' = IF ok THEN [pkg EXCEPT !.pc = "download", !.tempDir = TRUE, !.global = TRUE]
                         ELSE Raise(pkg, "io")
    /\ UNCHANGED <<kernels, pre>>
    /\ PkgFrame

\* download_kernel_package / process_manual_packages into the temporary
\* directory.
PkgDownload ==
    /\ pkg.pc = "download"
    /\ \E ok \in FaultChoice :
         /\ faults' = IF ok THEN faults ELSE faults + 1
         /\ pkg' = IF ok THEN [pkg EXCEPT !.pc = "vmlinuz"] ELSE Raise(pkg, "io")
    /\ UNCHANGED <<kernels, pre>>
    /\ PkgFrame

\* copy_vmlinuz writes vmlinuz-<v> into the output directory.
copy_vmlinuz ==
    /\ pkg.pc = "vmlinuz"
    /\ \E ok \in FaultChoice :
         /\ faults' = IF ok THEN faults ELSE faults + 1
         /\ pkg' = IF ok THEN [pkg EXCEPT !.pc = "staging", !.out = @ \cup {"vmlinuz"}]
                         ELSE Raise(pkg, "io")
    /\ UNCHANGED <<kernels, pre>>
    /\ PkgFrame

\* create_squashfs_image up to the tool check: the staging directory is made
\* with tempfile.mkdtemp and the modules are copied into it.
PkgStaging ==
    /\ pkg.pc = "staging"
    /\ \E ok \in FaultChoice :
         /\ faults' = IF ok THEN faults ELSE faults + 1
         /\ pkg' = IF ok THEN [pkg EXCEPT !.pc = "mksquashfs", !.staging = TRUE]
                         ELSE Raise(pkg, "io")
    /\ UNCHANGED <<kernels, pre>>
    /\ PkgFrame

\* create_squashfs_image from `mksquashfs -version` on: FileNotFoundError
\* becomes a RuntimeError; otherwise mksquashfs runs, and the staging
\* directory is removed whether it succeeds or not.
create_squashfs_image ==
    /\ pkg.pc = "mksquashfs"
    /\ IF ~pkg.mksquashfs
       THEN /\ pkg' = Raise(pkg, "mksquashfs")
            /\ faults' = faults
       ELSE \E ok \in FaultChoice :
              /\ faults' = IF ok THEN faults ELSE faults + 1
              /\ pkg' = IF ok THEN [pkg EXCEPT !.pc = "initramfs", !.staging = FALSE,
                                               !.out = @ \cup {"sb"}]
                              ELSE Raise([pkg EXCEPT !.staging = FALSE], "io")
    /\ UNCHANGED <<kernels, pre>>
    /\ PkgFrame

\* generate_initramfs: detect_initramfs_builder raises when neither mkdracut
\* nor mkinitrfs exists; otherwise the builder writes initrfs-<v>.img.
generate_initramfs ==
    /\ pkg.pc = "initramfs"
    /\ IF ~pkg.builder
       THEN /\ pkg' = Raise(pkg, "builder")
            /\ faults' = faults
       ELSE \E ok \in FaultChoice :
              /\ faults' = IF ok THEN faults ELSE faults + 1
              /\ pkg' = IF ok THEN [pkg EXCEPT !.pc = "install", !.out = @ \cup {"initrfs"}]
                              ELSE Raise(pkg, "io")
    /\ UNCHANGED <<kernels, pre>>
    /\ PkgFrame

\* The three files, under their expected names, are stored in the
\* repository; the result of package_kernel_to_repository is not looked at.
PkgInstall ==
    /\ pkg.pc = "install"
    /\ \E ok \in FaultChoice :
         /\ faults' = IF ok THEN faults ELSE faults + 1
         /\ kernels' = [kernels EXCEPT ![pkg.version] =
                           package_kernel_to_repository(@, pkg.content,
                               [k \in Kinds |-> TRUE], IF ok THEN 0 ELSE 1)]
    /\ pkg' = [pkg EXCEPT !.pc = "cleanup"]
    /\ pre' = pre
    /\ PkgFrame

\* cleanup_temp_dir() on successful completion: shutil.rmtree of the
\* temporary directory ...
PkgCleanupRmtree ==
    /\ pkg.pc = "cleanup"
    /\ pkg' = IF pkg.global /\ pkg.tempDir
              THEN [pkg EXCEPT !.pc = "cleanup_clear", !.tempDir = FALSE, !.removed = @ + 1]
              ELSE [pkg EXCEPT !.pc = "finally"]
    /\ UNCHANGED <<kernels, pre, faults>>
    /\ PkgFrame

\* ... and _temp_dir = None.
PkgCleanupClear ==
    /\ pkg.pc = "cleanup_clear"
    /\ pkg' = [pkg EXCEPT !.pc = "finally", !.global = FALSE]
    /\ UNCHANGED <<kernels, pre, faults>>
    /\ PkgFrame

\* except Exception: the error is printed and sys.exit(1) is called.
PkgExcept ==
    /\ pkg.pc = "except"
    /\ pkg' = [pkg EXCEPT !.pc = "finally", !.exit = 1]
    /\ UNCHANGED <<kernels, pre, faults>>
    /\ PkgFrame

\* finally: _temp_dir = None, with no cleanup.
PkgFinally ==
    /\ pkg.pc = "finally"
    /\ pkg' = [pkg EXCEPT !.pc = "atexit", !.global = FALSE]
    /\ UNCHANGED <<kernels, pre, faults>>
    /\ PkgFrame

\* The interpreter exits: cleanup_temp_dir registered with atexit runs.
PkgAtExit ==
    /\ pkg.pc = "atexit"
    /\ pkg' = [cleanup_temp_dir(pkg) EXCEPT !.pc = "done",
                                            !.exit = IF @ = NoExit THEN 0 ELSE @]
    /\ UNCHANGED <<kernels, pre, faults>>
    /\ PkgFrame

\* SIGINT or SIGTERM while the command runs: signal_handler calls
\* cleanup_temp_dir and sys.exit(128 + signum), once; SystemExit passes the
\* except clause and runs the finally clause.
PkgSignal(signum) ==
    /\ pkg.pc \notin {"none", "done"}
    /\ ~pkg.handling
    /\ pkg' = [cleanup_temp_dir(pkg) EXCEPT !.pc = "finally", !.handling = TRUE,
                                            !.exit = 128 + signum]
    /\ UNCHANGED <<kernels, pre, faults>>
    /\ PkgFrame

NextPkg ==
    \/ \E v \in Versions, c \in StoreContents : package_kernel(v, c)
    \/ PkgMkTemp
    \/ PkgDownload
    \/ copy_vmlinuz
    \/ PkgStaging
    \/ create_squashfs_image
    \/ generate_initramfs
    \/ PkgInstall
    \/ PkgCleanupRmtree
    \/ PkgCleanupClear
    \/ PkgExcept
    \/ PkgFinally
    \/ PkgAtExit
    \/ \E signum \in Signals : PkgSignal(signum)

SpecPkg == InitPkg /\ [][NextPkg]_vars

\* The command under a scheduler that lets the process run until it exits.
SpecPkgLive == InitPkg /\ [][NextPkg]_vars /\ WF_vars(NextPkg)

\* The sequence store(V); activate(V), with any of the three source files
\* of the store named as activate_kernel expects or not.
StoreAnyNames ==
    /\ nops = 0
    /\ \E v \in Versions, c \in StoreContents, canon \in [Kinds -> BOOLEAN] :
          Package(v, c, canon, 0)

ActivateStored ==
    /\ nops = 1 /\ call.op = "package"
    /\ ActivateBegin(call.target)

NextSA ==
    /\ \/ StoreAnyNames
       \/ ActivateStored
       \/ Steps
    /\ rt' = RtNext(rt, call', pc', pre')
    /\ txt' = txt
    /\ UNCHANGED <<other, pkg>>

SpecSA == Init /\ [][NextSA]_vars

-----------------------------------------------------------------------------
(* Bootloader configuration texts and the regular-expression rewrites       *)
(*                                                                          *)
(* A text is a sequence of symbols: "SP" (a space), "NL" (a newline), "Q"   *)
(* (a double quote), and words, each standing for the string of characters  *)
(* it spells; the word Ver(v) is the version string of v.  No word contains *)
(* white space or a double quote.                                           *)

WS == {"SP", "NL"}

Ver(v) == ToString(v)

IsVer(sym) == \E v \in Versions : sym = Ver(v)

MB == "/minios/boot/"

RECURSIVE SkipWs(_, _)
SkipWs(t, i) == IF i <= Len(t) /\ t[i] \in WS THEN SkipWs(t, i + 1) ELSE i

\* The position after the literal symbols lits matched at position i of t, or
\* 0 when they do not match; the element "WS+" is \s+.
RECURSIVE LitEnd(_, _, _)
LitEnd(t, i, lits) ==
    IF lits = <<>> THEN i
    ELSE IF i > Len(t) THEN 0
    ELSE IF Head(lits) = "WS+"
         THEN IF t[i] \in WS THEN LitEnd(t, SkipWs(t, i), Tail(lits)) ELSE 0
    ELSE IF t[i] = Head(lits) THEN LitEnd(t, i + 1, Tail(lits))
    ELSE 0

\* Membership in the character classes [^\s] and [^"].
InClass(sym, cls) == IF cls = "nonspace" THEN sym \notin WS ELSE sym # "Q"

\* The position after the longest run of symbols of the class from position j.
RECURSIVE RunEnd(_, _, _)
RunEnd(t, j, cls) ==
    IF j <= Len(t) /\ InClass(t[j], cls) THEN RunEnd(t, j + 1, cls) ELSE j

\* re.match of pattern p at position i of t.  A pattern is: the literals kept
\* (group 1, or literals the replacement repeats), the literals lit, a greedy run of at least min symbols of class run, and what follows
\* the run: nothing, a double quote, the last ".img" of the run (the run
\* backtracks to it), or a white space that is looked at and not consumed.
\* The result is the end of kept and the end of the match (0: no match).
Match(t, i, p) ==
    LET a == LitEnd(t, i, p.kept)
        b == IF a = 0 THEN 0 ELSE LitEnd(t, a, p.lit)
        e == IF b = 0 THEN 0 ELSE RunEnd(t, b, p.run)
        imgs == {q \in b..(e - 1) : t[q] = ".img"}
        end == IF b = 0 \/ e - b < p.min THEN 0
               ELSE IF p.post = "none" THEN e
               ELSE IF p.post = "Q" THEN (IF e <= Len(t) THEN e + 1 ELSE 0)
               ELSE IF p.post = "lookWS"
                    THEN (IF e <= Len(t) /\ t[e] \in WS THEN e ELSE 0)
               ELSE IF imgs = {} THEN 0
               ELSE 1 + CHOOSE q \in imgs : \A r \in imgs : r <= q
    IN [keep |-> a, end |-> end]

\* re.sub(p, repl, t) from position i on: leftmost matches, not overlapping.
RECURSIVE SubFrom(_, _, _, _)
SubFrom(t, i, p, repl) ==
    IF i > Len(t) THEN <<>>
    ELSE LET m == Match(t, i, p)
         IN IF m.end = 0
            THEN <<t[i]>> \o SubFrom(t, i + 1, p, repl)
            ELSE SubSeq(t, i, m.keep - 1) \o repl \o SubFrom(t, m.end, p, repl)

Sub(p, repl, t) == SubFrom(t, 1, p, repl)

Pattern(kept, lit, run, min, post) ==
    [kept |-> kept, lit |-> lit, run |-> run, min |-> min, post |-> post]

\* One re.sub call: the pattern and the replacement for what follows the kept
\* literals.
Rule(p, repl) == [p |-> p, repl |-> repl]

\* A sequence of re.sub calls, each applied to the result of the one before.
RECURSIVE SubAll(_, _)
SubAll(rules, t) ==
    IF rules = <<>> THEN t
    ELSE SubAll(Tail(rules), Sub(Head(rules).p, Head(rules).repl, t))

\* The five re.sub calls of _update_grub_config (minios_utils).
_update_grub_config(t, v) ==
    SubAll(<< Rule(Pattern(<<"set", "SP", "linux_image=", "Q">>, <<>>, "nonquote", 1, "Q"),
                   <<MB, "vmlinuz-", Ver(v), "Q">>),
              Rule(Pattern(<<"set", "SP", "initrd_img=", "Q">>, <<>>, "nonquote", 1, "Q"),
                   <<MB, "initrfs-", Ver(v), ".img", "Q">>),
              Rule(Pattern(<<MB>>, <<"vmlinuz-">>, "nonspace", 1, "none"),
                   <<"vmlinuz-", Ver(v)>>),
              Rule(Pattern(<<MB>>, <<"initrfs-">>, "nonspace", 1, "none"),
                   <<"initrfs-", Ver(v), ".img">>),
              Rule(Pattern(<<"search", "SP", "--set", "SP", "-f", "SP", MB>>,
                           <<"vmlinuz-">>, "nonspace", 1, "none"),
                   <<"vmlinuz-", Ver(v)>>) >>, t)

\* The five re.sub calls of update_grub_config (bootloader_utils).
update_grub_config(t, v) ==
    SubAll(<< Rule(Pattern(<<"linux", "SP", MB>>, <<"vmlinuz-">>, "nonspace", 0, "none"),
                   <<"vmlinuz-", Ver(v)>>),
              Rule(Pattern(<<"initrd", "SP", MB>>, <<"initrfs-">>, "nonspace", 0, ".img"),
                   <<"initrfs-", Ver(v), ".img">>),
              Rule(Pattern(<<"search", "SP", "--set", "SP", "-f", "SP", MB>>,
                           <<"vmlinuz-">>, "nonspace", 0, "none"),
                   <<"vmlinuz-", Ver(v)>>),
              Rule(Pattern(<<MB>>, <<"vmlinuz-">>, "nonspace", 0, "lookWS"),
                   <<"vmlinuz-", Ver(v)>>),
              Rule(Pattern(<<MB>>, <<"initrfs-">>, "nonspace", 0, ".img"),
                   <<"initrfs-", Ver(v), ".img">>) >>, t)

\* The two re.sub calls of _update_syslinux_config (minios_utils).
_update_syslinux_config(t, v) ==
    SubAll(<< Rule(Pattern(<<"KERNEL", "WS+", MB>>, <<"vmlinuz-">>, "nonspace", 1, "none"),
                   <<"vmlinuz-", Ver(v)>>),
              Rule(Pattern(<<"initrd=", MB>>, <<"initrfs-">>, "nonspace", 1, "none"),
                   <<"initrfs-", Ver(v), ".img">>) >>, t)

\* The two re.sub calls of update_syslinux_config._update_syslinux_file
\* (bootloader_utils).
_update_syslinux_file(t, v) ==
    SubAll(<< Rule(Pattern(<<"KERNEL", "WS+", MB>>, <<"vmlinuz-">>, "nonspace", 1, "none"),
                   <<"vmlinuz-", Ver(v)>>),
              Rule(Pattern(<<"initrd=", MB>>, <<"initrfs-">>, "nonspace", 1, "none"),
                   <<"initrfs-", Ver(v), ".img">>) >>, t)

GrubRewriters == {"_update_grub_config", "update_grub_config"}

SyslinuxRewriters == {"_update_syslinux_config", "_update_syslinux_file"}

Rewrite(name, t, v) ==
    IF name = "_update_grub_config" THEN _update_grub_config(t, v)
    ELSE IF name = "update_grub_config" THEN update_grub_config(t, v)
    ELSE IF name = "_update_syslinux_config" THEN _update_syslinux_config(t, v)
    ELSE _update_syslinux_file(t, v)

\* Lines of a GRUB configuration that references version v: the variable
\* definitions (with the kernel under /minios/boot/ or under another
\* directory), the linux, initrd and search commands, a bare path, and lines
\* without a kernel path.
GrubLines(v) ==
    UNION {
      { <<"set", "SP", "linux_image=", "Q", dir, "vmlinuz-", Ver(v), "Q", "NL">>,
        <<"set", "SP", "initrd_img=", "Q", dir, "initrfs-", Ver(v), ".img", "Q", "NL">> }
      : dir \in {MB, "/boot/"} }
    \cup { <<"linux", "SP", MB, "vmlinuz-", Ver(v), "SP", "x", "NL">>,
           <<"initrd", "SP", MB, "initrfs-", Ver(v), ".img", "NL">>,
           <<"search", "SP", "--set", "SP", "-f", "SP", MB, "vmlinuz-", Ver(v), "NL">>,
           <<"x", "SP", MB, "vmlinuz-", Ver(v), "NL">>,
           <<"menuentry", "SP", "Q", "x", "Q", "NL">>,
           <<"x", "NL">> }

\* Lines of a SYSLINUX configuration that references version v.
SyslinuxLines(v) ==
    { <<"KERNEL", "SP", MB, "vmlinuz-", Ver(v), "NL">>,
      <<"APPEND", "SP", "initrd=", MB, "initrfs-", Ver(v), ".img", "SP", "x", "NL">>,
      <<"x", "NL">> }

RECURSIVE Flatten(_)
Flatten(ls) == IF ls = <<>> THEN <<>> ELSE Head(ls) \o Flatten(Tail(ls))

\* A configuration text of at most MaxLines lines that references one
\* version, a rewriter for its format and the version to rewrite to; the
\* filesystem plays no part.
InitText ==
    /\ \E name \in GrubRewriters \cup SyslinuxRewriters, v \in Versions,
          old \in Versions, n \in 0..MaxLines :
         \E ls \in [1..n -> IF name \in GrubRewriters THEN GrubLines(old)
                                                      ELSE SyslinuxLines(old)] :
            txt = [rewriter |-> name, version |-> v, orig |-> Flatten(ls),
                   text |-> Flatten(ls), prev |-> Flatten(ls), stage |-> 0,
                   wrote |-> FALSE]
    /\ running = None
    /\ marker = NoFile
    /\ activeFiles = [v \in Versions |-> NoFiles]
    /\ kernels = [v \in Versions |-> NoDir]
    /\ cfg = [f \in ConfigFiles |-> NoFile]
    /\ pc = "idle"
    /\ call = NoCall
    /\ pre = Snapshot
    /\ rt = RtReset
    /\ nops = 0
    /\ faults = 0
    /\ other = NoProc
    /\ pkg = NoPkg

\* One application of the rewriter to the file: read, substitute, and write
\* back when the content changed.  It is applied twice.
RewriteConfig ==
    /\ txt.rewriter # "none"
    /\ txt.stage < 2
    /\ LET new == Rewrite(txt.rewriter, txt.text, txt.version)
       IN txt' = [txt EXCEPT !.prev = txt.text, !.text = new,
                             !.wrote = (new # txt.text), !.stage = @ + 1]
    /\ UNCHANGED <<running, marker, activeFiles, kernels, cfg, pc, call, pre, rt,
                   nops, faults, other, pkg>>

NextText == RewriteConfig

SpecText == InitText /\ [][NextText]_vars

-----------------------------------------------------------------------------
(* get_active_kernel on the content of boot/active-kernel *)

\* str.strip(): the text without its leading and trailing white space.
RECURSIVE Strip(_)
Strip(t) ==
    IF t = <<>> THEN <<>>
    ELSE IF Head(t) \in WS THEN Strip(Tail(t))
    ELSE IF t[Len(t)] \in WS THEN Strip(SubSeq(t, 1, Len(t) - 1))
    ELSE t

\* f.read().strip() and "if kernel_version": the version the marker file
\* names, or None when nothing is left after stripping.
read_marker(t) ==
    IF Strip(t) = <<>> THEN None
    ELSE CHOOSE v \in Versions : <<Ver(v)>> = Strip(t)

\* Contents of a marker file: empty or white space only, or a version with
\* or without white space around it.
MarkerTexts ==
    { <<>>, <<"NL">>, <<"SP", "NL">> }
      \cup UNION { { <<Ver(v)>>, <<Ver(v), "NL">>, <<"SP", Ver(v), "NL">> } : v \in Versions }

\* A boot/ directory with any files of any versions, and a marker that is
\* absent or has one of the contents above.
InitMarker ==
    /\ activeFiles \in [Versions -> [Kinds -> {0, 1}]]
    /\ \/ marker = NoFile /\ txt = NoText
       \/ \E t \in MarkerTexts :
            /\ marker = read_marker(t)
            /\ txt = [NoText EXCEPT !.orig = t, !.text = t]
    /\ running = None
    /\ kernels = [v \in Versions |-> NoDir]
    /\ cfg = [f \in ConfigFiles |-> NoFile]
    /\ pc = "idle"
    /\ call = NoCall
    /\ pre = Snapshot
    /\ rt = RtReset
    /\ nops = 0
    /\ faults = 0
    /\ other = NoProc
    /\ pkg = NoPkg

\* One call of get_active_kernel; call.av is the value it returns.
GetActiveKernel ==
    /\ pc = "idle"
    /\ call.op = "none"
    /\ call' = [NoCall EXCEPT
                  !.op = "get_active_kernel",
                  !.av = get_active_kernel(
                            IF marker = NoFile THEN NoFile ELSE read_marker(txt.text),
                            activeFiles)]
    /\ UNCHANGED <<running, marker, activeFiles, kernels, cfg, pc, pre, rt, nops,
                   faults, txt, other, pkg>>

NextMarker == GetActiveKernel

SpecMarker == InitMarker /\ [][NextMarker]_vars

-----------------------------------------------------------------------------
(* Properties *)

Idle(op) == pc = "idle" /\ call.op = op

ActiveNow == get_active_kernel(marker, activeFiles)

ActiveBefore == get_active_kernel(pre.marker, pre.activeFiles)

Packaged(kn, v) == kn[v].exists /\ Complete(kn[v].files)

\* C1: in every intermediate state of activate_kernel (a crash after any of
\* its filesystem steps) the marker still names the previously active kernel
\* and that kernel's three files are still present in the active locations.
C1_CrashKeepsMarkedKernel ==
    (call.op = "activate" /\ pc # "idle"
        /\ pre.marker \in Versions /\ Complete(pre.activeFiles[pre.marker]))
    => (marker = pre.marker /\ Complete(activeFiles[marker]))

\* C2: after any sequence of store, activate and delete operations, whenever
\* boot/active-kernel contains version v, the three files of v exist in the
\* active locations.
C2_MarkerHasFiles ==
    (pc = "idle" /\ marker \in Versions) => Complete(activeFiles[marker])

\* C3: whenever activate_kernel returns failure, marker, bootloader configs and
\* active-location files are all as before the call, or all in the new state
\* for the target.
C3_FailureIsAllOrNothing ==
    (Idle("activate") /\ call.ret = "False")
    => \/ /\ marker = pre.marker
          /\ cfg = pre.cfg
          /\ activeFiles = pre.activeFiles
       \/ /\ marker = call.target
          /\ Complete(activeFiles[call.target])
          /\ \A f \in ConfigFiles : cfg[f] # NoFile => cfg[f] = call.target

\* C4: activate_kernel(V) for a V without directory kernels/<V>/ that is not
\* the running kernel returns failure and get_active_kernel returns the same
\* value after the call as before it (stated for the calls on which no copy
\* or move raises an I/O error).
C4_UnpackagedKeepsActive ==
    (Idle("activate") /\ ~pre.kernels[call.target].exists
        /\ ~is_kernel_currently_running(call.target) /\ ~call.faulted)
    => (call.ret = "False" /\ ActiveNow = ActiveBefore)

\* C5: for every V whose three files are under kernels/<V>/ before the call and
\* every prior state of the active kernel, activate_kernel(V) on which no copy
\* or move raises an I/O error returns True and get_active_kernel then
\* returns V.
C5_ActivateThenActive ==
    (Idle("activate") /\ Packaged(pre.kernels, call.target) /\ ~call.faulted)
    => (call.ret = "True" /\ ActiveNow = call.target)

C5_Witness ==
    /\ Idle("activate") /\ Packaged(pre.kernels, call.target) /\ ~call.faulted
    /\ call.branch = "normal"
    /\ ActiveBefore \in Versions \ {call.target}
    /\ ActiveNow = call.target

\* C6: after a successful activate_kernel(target), every bootloader config
\* file that exists under boot/grub/ and boot/syslinux/ references target
\* (stated for the calls on which no config file fails to be read or written).
C6_AllConfigsUpdated ==
    (Idle("activate") /\ call.ret = "True" /\ ~call.cfgFailed)
    => \A f \in GrubDirFiles \cup SyslinuxDirFiles :
          cfg[f] # NoFile => cfg[f] = call.target

\* C7: when the GRUB configuration update of activate_kernel fails (a GRUB
\* config file cannot be read or written, or none exists under boot/grub/),
\* activate_kernel reports failure and does not write the marker.
C7_GrubFailureFailsActivation ==
    (Idle("activate") /\ call.grubFailed)
    => (call.ret = "False" /\ marker = pre.marker)

\* C8: a deactivate_current_kernel that returns True has put every file the
\* active kernel had in the active locations under kernels/<active>/, has left
\* it in the active location when the active kernel is the running kernel, and
\* has removed it from there when it is not.
Retired ==
    /\ call.av # None
    /\ \/ Idle("deactivate") /\ call.ret = "True"
       \/ call.op = "activate" /\ call.retired
            /\ (pc = "act_check" \/ (call.branch = "running" /\ pc # "idle"))

C8_RetireCopiesOrMoves ==
    Retired =>
      \A k \in Kinds :
         pre.activeFiles[call.av][k] # 0 =>
            /\ kernels[call.av].files[k] = pre.activeFiles[call.av][k]
            /\ activeFiles[call.av][k] =
                  IF call.av = running THEN pre.activeFiles[call.av][k] ELSE 0

C8_Witness ==
    /\ Retired
    /\ call.av # running
    /\ Complete(pre.activeFiles[call.av])
    /\ ~pre.kernels[call.av].exists

\* C9 as stated: after store(V, fs); activate(V); activate(W) with W # V, the
\* three files of V are under kernels/<V>/ with the stored contents.
C9_RoundTrip ==
    rt.stage = 3 => kernels[rt.v].files = Triad(rt.c)

\* C9 amended: the same, for a V that was neither the active nor the running
\* kernel when activate(V) was called.
C9_RoundTripFresh ==
    (rt.stage = 3 /\ rt.fresh) => kernels[rt.v].files = Triad(rt.c)

C9_Witness ==
    /\ rt.stage = 3 /\ rt.fresh
    /\ rt.c # 1
    /\ call.av = rt.v
    /\ kernels[rt.v].files = Triad(rt.c)

\* C10: if any of the three copies of package_kernel_to_repository(v, ...)
\* fails, it returns False and kernels/<v>/ does not exist afterwards.
C10_FailedStoreLeavesNoDir ==
    (Idle("package") /\ call.faulted)
    => (call.ret = "False" /\ ~kernels[call.target].exists)

C10_Witness ==
    /\ Idle("package") /\ call.faulted
    /\ call.ret = "False"
    /\ ~kernels[call.target].exists

\* C11: in store(V); delete(V); delete(V), a delete_packaged_kernel(V) that
\* returns True leaves no directory kernels/<V>/ (so V is not packaged), and a
\* delete_packaged_kernel(V) called when kernels/<V>/ is absent returns True
\* and leaves the whole filesystem as it was.
C11_StoreDeleteGone ==
    /\ (Idle("delete") /\ call.ret = "True")
          => (~kernels[call.target].exists /\ ~Packaged(kernels, call.target))
    /\ (Idle("delete") /\ ~pre.kernels[call.target].exists)
          => (call.ret = "True" /\ Snapshot = pre)

C11_Witness ==
    /\ Idle("delete") /\ nops = 2
    /\ Packaged(pre.kernels, call.target)
    /\ pre.kernels[call.target].files = Triad(2)
    /\ call.ret = "True"
    /\ ~kernels[call.target].exists

\* C12: a delete of version v (delete_packaged_kernel, or the delete command)
\* when v is the active or the running version removes nothing from the
\* repository.
C12_DeleteSparesActiveRunning ==
    (Idle("delete") /\ (call.target = ActiveBefore \/ call.target = running))
    => kernels = pre.kernels

\* C13: activate_kernel(target), or the activate command, for a target that
\* is already the active version returns success and leaves the marker, the
\* bootloader configs, the active-location files and the repository unchanged
\* (stated for the calls on which no I/O error is raised).
C13_AlreadyActiveUntouched ==
    (Idle("activate") /\ call.target = ActiveBefore
        /\ ~call.faulted /\ ~call.cfgFailed)
    => (call.ret = "True" /\ Snapshot = pre)

\* C14: a minios-kernel command exits with 1 when it reports a failure and
\* with 0 when it reports success, with and without --json.
C14_ExitCodeMatchesResult ==
    (pc = "idle" /\ call.cli # "none")
    => call.exit = (IF call.ret = "True" THEN 0 ELSE 1)

\* C15: a rewrite to version V leaves the text of the same length and changes
\* no symbol other than version strings: directory prefixes, double quotes,
\* white space and every other word are as before.
OnlyVersionsDiffer(t, u) ==
    /\ Len(t) = Len(u)
    /\ \A i \in 1..Len(t) : t[i] = u[i] \/ (IsVer(t[i]) /\ IsVer(u[i]))

C15_OnlyVersionSuffixChanges ==
    txt.stage = 1 => OnlyVersionsDiffer(txt.orig, txt.text)

\* C16: rewriting the result of a rewrite to V again to V yields the same
\* text and writes nothing, for each of the four rewriters.
C16_RewriteIsIdempotent ==
    txt.stage = 2 => (txt.text = txt.prev /\ ~txt.wrote)

\* The versions that have a vmlinuz-* file in boot/.
HasVmlinuz == {v \in Versions : activeFiles[v]["vmlinuz"] # 0}

\* What C17 prescribes when the marker does not decide: a version of a
\* boot/vmlinuz-* file, or None when there is no such file.
FromVmlinuz(r) == IF HasVmlinuz = {} THEN r = None ELSE r \in HasVmlinuz

\* C17 as stated: whenever boot/active-kernel exists and is not an empty
\* file, get_active_kernel returns its stripped content, whatever vmlinuz-*
\* files there are; otherwise the version of a vmlinuz-* file, or None.
C17_MarkerWins ==
    call.op = "get_active_kernel" =>
       IF marker # NoFile /\ txt.text # <<>>
       THEN Strip(txt.text) = (IF call.av = None THEN <<>> ELSE <<Ver(call.av)>>)
       ELSE FromVmlinuz(call.av)

\* C17 amended: the marker decides when it contains a version, that is when
\* it is not empty once white space is stripped.
C17_StrippedMarkerWins ==
    call.op = "get_active_kernel" =>
       IF marker # NoFile /\ \E i \in 1..Len(txt.text) : IsVer(txt.text[i])
       THEN \E i \in 1..Len(txt.text) : txt.text[i] = Ver(call.av)
       ELSE FromVmlinuz(call.av)

C17_Witness ==
    /\ call.op = "get_active_kernel"
    /\ marker \in Versions
    /\ txt.text = <<"SP", Ver(marker), "NL">>
    /\ HasVmlinuz # {}
    /\ marker \notin HasVmlinuz
    /\ call.av = marker

\* C18: in every step of an activate_kernel call: the copies into the active
\* locations start only once the retirement has returned success, and the
\* retirement touches the repository only before that; a config file is
\* rewritten only after the retirement and in a step that does not end the
\* call; the marker is written only by the step that ends the call with
\* True, which changes nothing else.
C18_ActivationOrder ==
    [][ call'.op = "activate" =>
          /\ (pc' = "act_copy") => call'.retired
          /\ (kernels' # kernels) => ~call.retired
          /\ (cfg' # cfg) => (call.retired /\ pc' # "idle")
          /\ (marker' # marker) => pc = "act_marker"
          /\ (pc = "act_marker") =>
                /\ pc' = "idle" /\ call'.ret = "True"
                /\ cfg' = cfg /\ activeFiles' = activeFiles /\ kernels' = kernels
      ]_vars

C18_Witness ==
    /\ Idle("activate") /\ call.ret = "True" /\ call.branch = "normal"
    /\ kernels # pre.kernels
    /\ activeFiles[call.target] # pre.activeFiles[call.target]
    /\ cfg # pre.cfg
    /\ marker # pre.marker

\* C19: in the normal branch of activate_kernel, a config file is rewritten
\* or the marker written only when kernels/<target>/ held all three target
\* files and all three have been copied into the active locations; when the
\* call returns False no config and no marker has been written.
C19_ConfigsAfterCopies ==
    (call.op = "activate" /\ call.branch = "normal") =>
       /\ (cfg # pre.cfg \/ marker # pre.marker \/ pc = "act_marker" \/ call.ret = "True")
             => /\ Packaged(kernels, call.target)
                /\ activeFiles[call.target] = kernels[call.target].files
                /\ ~call.faulted
       /\ (pc = "idle" /\ call.ret = "False")
             => (cfg = pre.cfg /\ marker = pre.marker)

C19_Witness ==
    /\ Idle("activate") /\ call.branch = "normal" /\ call.ret = "False"
    /\ nops = 2
    /\ kernels[call.target].exists
    /\ kernels[call.target].files["vmlinuz"] # 0
    /\ kernels[call.target].files["sb"] = 0
    /\ \E f \in ConfigFiles : cfg[f] \in Versions \ {call.target}

\* C20: activate_kernel(target) for the running kernel, when no move raises:
\* if target is already active it returns True and nothing changes; if not,
\* it returns True with the marker naming target, the existing
\* boot/syslinux.cfg and boot/grub/grub.cfg rewritten to target unless their
\* rewrite fails, the previously active kernel moved to its repository
\* directory, and the active files of target and kernels/<target>/ untouched,
\* whether or not kernels/<target>/ exists.
C20_RunningTarget ==
    (Idle("activate") /\ call.branch = "running" /\ ~call.faulted) =>
       IF ActiveBefore = call.target
       THEN call.ret = "True" /\ Snapshot = pre
       ELSE /\ call.ret = "True"
            /\ marker = call.target
            /\ \A i \in 1..Len(CfgOrder) :
                  \/ cfg[CfgOrder[i]] = call.target
                  \/ pre.cfg[CfgOrder[i]] = NoFile /\ cfg[CfgOrder[i]] = NoFile
                  \/ call.cfgFailed /\ cfg[CfgOrder[i]] = pre.cfg[CfgOrder[i]]
            /\ activeFiles[call.target] = pre.activeFiles[call.target]
            /\ kernels[call.target] = pre.kernels[call.target]
            /\ \A v \in Versions \ {call.target} :
                  IF v = ActiveBefore
                  THEN /\ activeFiles[v] = NoFiles
                       /\ kernels[v].exists
                       /\ \A k \in Kinds : pre.activeFiles[v][k] # 0
                             => kernels[v].files[k] = pre.activeFiles[v][k]
                  ELSE activeFiles[v] = pre.activeFiles[v] /\ kernels[v] = pre.kernels[v]

C20_Witness ==
    /\ Idle("activate") /\ call.branch = "running" /\ ~call.faulted
    /\ ActiveBefore \in Versions \ {call.target}
    /\ ~pre.kernels[call.target].exists
    /\ pre.activeFiles[call.target] = NoFiles
    /\ marker = call.target
    /\ cfg["boot/grub/grub.cfg"] = call.target
    /\ pre.cfg["boot/grub/grub.cfg"] = ActiveBefore

\* The elements of a sequence.
Range(q) == {q[i] : i \in 1..Len(q)}

\* C21: when a bootloader config update returns, every discovered file other
\* than the ones that failed references the target, and the result is False
\* when a file failed.
C21_OtherFilesStillRewritten ==
    Idle("update_configs") =>
       /\ \A f \in Range(Discovered(call.branch, pre.cfg)) \ call.failed :
             cfg[f] = call.target
       /\ call.failed # {} => call.ret = "False"

C21_Witness ==
    /\ Idle("update_configs")
    /\ call.failed = {"boot/grub/main.cfg"}
    /\ cfg["boot/grub/grub.cfg"] = call.target
    /\ pre.cfg["boot/grub/grub.cfg"] \in Versions \ {call.target}
    /\ call.ret = "False"

\* C22: a bootloader config update whose GRUB part succeeded (a GRUB file was
\* found where the module requires one, and no GRUB file failed) returns
\* True, whatever happened to the SYSLINUX files.
C22_SyslinuxNeverFatal ==
    (Idle("update_configs")
        /\ call.failed \cap GrubDirFiles = {}
        /\ ~(call.branch = "bootloader_utils" /\ NoGrubConfig(pre.cfg)))
    => call.ret = "True"

\* C23: an activate command that has changed the filesystem and is over,
\* by return or by exit of the process, has produced a result: True with
\* all steps applied, or an explicit False.
C23_SignalDoesNotAbandon ==
    (call.op = "activate" /\ pc \in {"idle", "exited"} /\ Snapshot # pre)
    => call.ret \in {"True", "False"}

\* C24: when the check for mksquashfs, or for an initramfs builder, fails,
\* nothing has been written: the output directory holds no file, no SquashFS
\* staging directory exists, and the repository is as it was.
C24_ToolCheckBeforeWrites ==
    pkg.error \in {"mksquashfs", "builder"}
    => pkg.out = {} /\ ~pkg.staging /\ kernels = pre.kernels

\* C30: once the temporary directory of the package command exists, it is
\* eventually removed, however the command ends, and it is removed at most
\* once.
C30_TempDirRemovedOnce ==
    /\ [](pkg.tempDir => <>(~pkg.tempDir))
    /\ [](pkg.removed <= 1)

\* C25: a store for a version whose directory kernels/<v>/ already exists
\* leaves that directory and the files in it as they were, whether the store
\* succeeds or fails.
C25_StoreKeepsExistingSet ==
    (Idle("package") /\ pre.kernels[call.target].exists)
    => kernels[call.target] = pre.kernels[call.target]

\* C26: no step of any operation, failing or not, takes one of the running
\* kernel's three files out of the active locations: when they are all
\* present before a step they are all present after it.
C26_RunningFilesStay ==
    [][(running # None /\ Complete(activeFiles[running]))
          => Complete(activeFiles'[running])]_vars

C26_Witness ==
    /\ pc = "idle" /\ nops >= 2
    /\ call.op = "activate" /\ call.ret = "True"
    /\ call.target # running
    /\ ActiveBefore = running
    /\ Complete(activeFiles[running])
    /\ Complete(activeFiles[call.target])

\* Every version directory that exists holds the three files.
RepositoryComplete(kn) == \A v \in Versions : kn[v].exists => Complete(kn[v].files)

\* C27: between operations, every directory kernels/<v>/ that exists holds
\* the complete triad: no store, activation, retirement or delete, failing
\* or not, leaves an empty or partial version directory.
C27_NoPartialDirectory ==
    pc = "idle" => RepositoryComplete(kernels)

\* C28: after a store of version v that returned True, kernels/<v>/ holds
\* the files 01-kernel-<v>.sb, vmlinuz-<v> and initrfs-<v>.img, whatever the
\* names of the source files were.
C28_StoredMeansPackaged ==
    (Idle("package") /\ call.ret = "True") => Packaged(kernels, call.target)

\* Marker, the configs activate_kernel rewrites, and the active locations
\* are all for version t: the marker names t, the configs reference t, t's
\* three files are in place, and no other kernel's files are, the running
\* kernel's excepted.
Consistent(t) ==
    /\ marker = t
    /\ \A f \in Range(CfgOrder) : cfg[f] # NoFile => cfg[f] = t
    /\ Complete(activeFiles[t])
    /\ \A v \in Versions \ {t, running} : activeFiles[v] = NoFiles

BothDone ==
    /\ pc = "idle" /\ call.op = "activate" /\ call.ret = "True"
    /\ other.pc = "idle" /\ other.call.op = "activate" /\ other.call.ret = "True"
    /\ faults = 0

====
